---- MODULE Spec2Model ----
(***************************************************************************)
(* A model of server.py: the module body that builds the Flask             *)
(* application, the upload handler with insert_data_into_sql, and the      *)
(* download handler, against a relational store reached through pyodbc.    *)
(* Requests are handled one at a time by each worker of Workers; a step    *)
(* of a handler is one call into the store, which may succeed or raise.    *)
(*                                                                         *)
(* Text is a tuple of one-character strings, so that str.strip and         *)
(* pd.to_numeric are computed on characters.  A spreadsheet cell is a      *)
(* record [kind, v] with kind "blank", "text" or "num".                    *)
(***************************************************************************)
EXTENDS Integers, Sequences, FiniteSets, TLC

VARIABLES
    loadPc,      \* index of the next statement of the module body to execute
    appName,     \* the object bound to the module-level name `app` (0: unbound)
    routes,      \* routes[o]: the url map of Flask object o, a set of [path, handler]
    serving,     \* the Flask object the HTTP server dispatches to (0: not serving)
    runMode,     \* "main": python server.py;  "import": loaded by a WSGI server
    UPLOAD_TABLE,    \* os.environ.get("UPLOAD_TABLE", "HISup")
    DOWNLOAD_TABLE,  \* os.environ.get("DOWNLOAD_TABLE", "HisupFinal")
    tables,      \* tables[name]: the committed rows of a store table, in insert order
    openConns,   \* openConns[r]: how many pyodbc connections request number r holds open
    nreq,        \* number of requests received so far
    th           \* th[w]: the request worker w is handling, and the handler's locals

vars == <<loadPc, appName, routes, serving, runMode, UPLOAD_TABLE, DOWNLOAD_TABLE,
          tables, openConns, nreq, th>>

loadVars == <<loadPc, appName, routes, serving, runMode>>
envVars == <<UPLOAD_TABLE, DOWNLOAD_TABLE>>

None == "None"

\* ------------------------------------------------------------------ bounds
MaxRequests == 3

\* ------------------------------------------------------------------ text
Txt1(a) == <<a>>
Txt2(a, b) == <<a, b>>
Txt3(a, b, c) == <<a, b, c>>

IsSpace(c) == c = " "

RECURSIVE LStrip(_)
LStrip(s) == IF s # <<>> /\ IsSpace(Head(s)) THEN LStrip(Tail(s)) ELSE s

RECURSIVE RStrip(_)
RStrip(s) ==
    IF s # <<>> /\ IsSpace(s[Len(s)]) THEN RStrip(SubSeq(s, 1, Len(s) - 1)) ELSE s

\* str.strip()
Strip(s) == RStrip(LStrip(s))

Digits == <<"0", "1", "2", "3", "4", "5", "6", "7", "8", "9">>
IsDigit(c) == \E i \in 1..10 : Digits[i] = c
DigitVal(c) == (CHOOSE i \in 1..10 : Digits[i] = c) - 1

RECURSIVE DecimalValue(_)
DecimalValue(s) ==
    IF s = <<>> THEN 0
    ELSE 10 * DecimalValue(SubSeq(s, 1, Len(s) - 1)) + DigitVal(s[Len(s)])

\* the code point order of the characters the inputs use
CharCode(c) ==
    CASE c = " " -> 32
      [] IsDigit(c) -> 48 + DigitVal(c)
      [] c = "A" -> 65
      [] c = "B" -> 66
      [] c = "N" -> 78
      [] c = "S" -> 83
      [] c = "a" -> 97
      [] c = "n" -> 110
      [] OTHER -> 127

RECURSIVE TextLess(_, _)
TextLess(a, b) ==
    IF b = <<>> THEN FALSE
    ELSE IF a = <<>> THEN TRUE
    ELSE IF CharCode(Head(a)) # CharCode(Head(b))
         THEN CharCode(Head(a)) < CharCode(Head(b))
    ELSE TextLess(Tail(a), Tail(b))

\* ------------------------------------------------------------------ cells
Blank == [kind |-> "blank"]
TextCell(s) == [kind |-> "text", v |-> s]
NumCell(n) == [kind |-> "num", v |-> n]

\* Series.astype(str) on a description cell, which is text or blank: a blank
\* cell (NaN) becomes the text "nan"
AsTypeStr(cell) ==
    CASE cell.kind = "blank" -> Txt3("n", "a", "n")
      [] cell.kind = "text" -> cell.v

\* a float that is NaN, or the number n
NaN == [nan |-> TRUE, n |-> 0]
Number(n) == [nan |-> FALSE, n |-> n]

\* pd.to_numeric(..., errors='coerce') on one cell
ToNumeric(cell) ==
    CASE cell.kind = "num" -> Number(cell.v)
      [] cell.kind = "text" ->
            IF cell.v # <<>> /\ \A i \in 1..Len(cell.v) : IsDigit(cell.v[i])
            THEN Number(DecimalValue(cell.v)) ELSE NaN
      [] OTHER -> NaN

\* ------------------------------------------------------------------ dates
\* pd.to_datetime on the date strings the requests use: <<ok, day, minutes>>
ToDatetime(s) ==
    CASE s = "2025-01-10" -> [ok |-> TRUE, day |-> 10, minutes |-> 0]
      [] s = "2025-01-11" -> [ok |-> TRUE, day |-> 11, minutes |-> 0]
      [] s = "2025-01-10 13:00" -> [ok |-> TRUE, day |-> 10, minutes |-> 780]
      [] OTHER -> [ok |-> FALSE, day |-> 0, minutes |-> 0]

\* Timestamp.date()
DateOf(ts) == ts.day

\* date.isoformat()
IsoFormat(day) ==
    CASE day = 10 -> "2025-01-10"
      [] day = 11 -> "2025-01-11"
      [] OTHER -> "NaT"

\* the store's value of a DateOfRpt column: a day with a time of day
StoredDate(day, minutes) == [day |-> day, minutes |-> minutes]

\* CAST(DateOfRpt AS DATE)
CastAsDate(stored) == stored.day

\* the store's implicit conversion of a string parameter to a date
SqlDateParam(s) == DateOf(ToDatetime(s))

\* ------------------------------------------------------------------ module body
\* The statements of server.py that build the application, top to bottom.
ModuleBody == <<
    [op |-> "Flask", path |-> None, handler |-> None],
    [op |-> "route", path |-> "/ping", handler |-> "ping"],
    [op |-> "route", path |-> "/healthz", handler |-> "healthz"],
    [op |-> "route", path |-> "/api/upload-excel", handler |-> "upload_file"],
    [op |-> "route", path |-> "/download", handler |-> "download_data"],
    [op |-> "route", path |-> "/", handler |-> "home"],
    [op |-> "route", path |-> "/download-template", handler |-> "download_template"],
    [op |-> "main", path |-> None, handler |-> None],
    [op |-> "Flask", path |-> None, handler |-> None],
    [op |-> "route", path |-> "/", handler |-> "home"],
    [op |-> "main", path |-> None, handler |-> None] >>

FlaskObjects == {i \in 1..Len(ModuleBody) : ModuleBody[i].op = "Flask"}

Loading == loadPc \in 1..Len(ModuleBody)
Loaded == loadPc = Len(ModuleBody) + 1

\* app = Flask(...): a new object, with an empty url map, is bound to `app`
LoadNewApp ==
    /\ Loading /\ serving = 0
    /\ ModuleBody[loadPc].op = "Flask"
    /\ appName' = loadPc
    /\ routes' = [routes EXCEPT ![loadPc] = {}]
    /\ loadPc' = loadPc + 1
    /\ UNCHANGED <<serving, runMode, envVars, tables, openConns, nreq, th>>

\* @app.route(path): the handler is added to the url map of the object `app` names now
LoadRoute ==
    /\ Loading /\ serving = 0
    /\ ModuleBody[loadPc].op = "route"
    /\ routes' = [routes EXCEPT ![appName] =
                    @ \cup {[path |-> ModuleBody[loadPc].path,
                             handler |-> ModuleBody[loadPc].handler]}]
    /\ loadPc' = loadPc + 1
    /\ UNCHANGED <<appName, serving, runMode, envVars, tables, openConns, nreq, th>>

\* if __name__ == '__main__': app.run(...) serves the object `app` names and
\* does not return; under an import the block is skipped
LoadMainGuard ==
    /\ Loading /\ serving = 0
    /\ ModuleBody[loadPc].op = "main"
    /\ IF runMode = "main"
       THEN serving' = appName /\ loadPc' = loadPc
       ELSE serving' = serving /\ loadPc' = loadPc + 1
    /\ UNCHANGED <<appName, routes, runMode, envVars, tables, openConns, nreq, th>>

\* a WSGI server that imported the module serves the attribute `app` of the module
WsgiServe ==
    /\ Loaded /\ serving = 0
    /\ runMode = "import"
    /\ serving' = appName
    /\ UNCHANGED <<loadPc, appName, routes, runMode, envVars, tables, openConns, nreq, th>>

\* the view function the served application has for a path, or None
HandlerFor(p) ==
    IF \E r \in routes[serving] : r.path = p
    THEN (CHOOSE r \in routes[serving] : r.path = p).handler
    ELSE None

\* ------------------------------------------------------------------ requests
Workers == {"w1"}

NoResponse == [status |-> 0, error |-> None, body |-> <<>>]
ErrorResponse(status, error) == [status |-> status, error |-> error, body |-> <<>>]
OkResponse(body) == [status |-> 200, error |-> None, body |-> body]

NoQuery == [table |-> None, shelterPlaceholders |-> <<>>, datePlaceholders |-> <<>>]

Idle == [pc |-> "idle", kind |-> None, req |-> 0, input |-> [has |-> {}],
         df |-> <<>>, dropped |-> 0, query |-> NoQuery, params |-> <<>>,
         conn |-> FALSE, cursor |-> FALSE, pending |-> <<>>,
         inserted |-> 0, result |-> <<>>, exc |-> None, resp |-> NoResponse]

CanAccept(w) == serving # 0 /\ th[w].pc = "idle" /\ nreq < MaxRequests

\* the request record of a worker that has just been handed request number nreq + 1
Accepted(kind, input) == [Idle EXCEPT !.kind = kind, !.req = nreq + 1, !.input = input]

Finished(r, resp) == [r EXCEPT !.pc = "done", !.resp = resp]

\* a request for a path the served application has no rule for: Flask answers 404
NotFound(w) ==
    /\ CanAccept(w)
    /\ \E p \in {"/ping", "/healthz", "/api/upload-excel", "/download"} :
          /\ HandlerFor(p) = None
          /\ th' = [th EXCEPT ![w] =
                      Finished(Accepted("unrouted", [path |-> p]), ErrorResponse(404, "Not Found"))]
    /\ nreq' = nreq + 1
    /\ UNCHANGED <<loadVars, envVars, tables, openConns>>

ping(w) ==
    /\ CanAccept(w)
    /\ HandlerFor("/ping") = "ping"
    /\ th' = [th EXCEPT ![w] = Finished(Accepted("ping", [path |-> "/ping"]), OkResponse("pong"))]
    /\ nreq' = nreq + 1
    /\ UNCHANGED <<loadVars, envVars, tables, openConns>>

healthz(w) ==
    /\ CanAccept(w)
    /\ HandlerFor("/healthz") = "healthz"
    /\ th' = [th EXCEPT ![w] =
                Finished(Accepted("healthz", [path |-> "/healthz"]),
                         OkResponse([status |-> "ok"]))]
    /\ nreq' = nreq + 1
    /\ UNCHANGED <<loadVars, envVars, tables, openConns>>

\* the response has been sent: the worker is free for the next request
Return(w) ==
    /\ th[w].pc = "done"
    /\ th' = [th EXCEPT ![w] = Idle]
    /\ UNCHANGED <<loadVars, envVars, tables, openConns, nreq>>

\* ------------------------------------------------------------------ generic helpers
\* DataFrame.head(n) / the first n elements of a sequence
HeadRows(s, n) == SubSeq(s, 1, IF Len(s) < n THEN Len(s) ELSE n)

MapSeq(s, Op(_)) == [i \in 1..Len(s) |-> Op(s[i])]

\* ------------------------------------------------------------------ upload inputs
\* A workbook: the names of its sheets and the rows of the sheet 'JSON', header
\* row first, each row the cells of columns A..D.
Row(b, c, d) == <<Blank, b, c, d>>
HeaderRow == Row(TextCell(Txt1("D")), TextCell(Txt1("V")), TextCell(Txt1("R")))

rBeds == Row(TextCell(Txt1("B")), NumCell(12), NumCell(1))
rPadded == Row(TextCell(Txt3(" ", "A", " ")), TextCell(Txt1("7")), NumCell(2))
rBlankDesc == Row(Blank, NumCell(3), NumCell(1))
rNotApplicable == Row(TextCell(Txt1("B")), TextCell(Txt2("N", "A")), NumCell(1))
rBlankVersion == Row(TextCell(Txt1("B")), NumCell(12), Blank)

Workbook(rows) == [sheets |-> {"JSON"}, rows |-> rows]

Workbooks == {
    [sheets |-> {"Sheet1"}, rows |-> <<>>],
    Workbook(<<HeaderRow>>),
    Workbook(<<HeaderRow, rBeds>>),
    Workbook(<<HeaderRow, rBlankDesc>>),
    Workbook(<<HeaderRow, rBlankVersion>>),
    Workbook(<<HeaderRow, rBeds, rNotApplicable>>),
    Workbook(<<HeaderRow, rNotApplicable, rPadded>>),
    Workbook(<<HeaderRow, rPadded, rBeds>>) }

AllFields == {"excelFile", "shelter", "dateOfRpt"}

\* request.files and request.form of an upload request; has: the fields it carries
UploadForms ==
    [has : {AllFields}, excelFile : Workbooks,
     shelter : {Txt1("N")}, dateOfRpt : {"2025-01-10"}]
    \cup [has : {AllFields}, excelFile : {Workbook(<<HeaderRow, rBeds>>)},
          shelter : {<<>>, Txt1("N"), Txt1("S")},
          dateOfRpt : {"", "2025-01-10 13:00", "2025-01-11", "bad"}]
    \cup [has : {AllFields \ {f} : f \in AllFields},
          excelFile : {Workbook(<<HeaderRow, rBeds>>)},
          shelter : {Txt1("N")}, dateOfRpt : {"2025-01-10"}]

\* ------------------------------------------------------------------ upload_file
PreviewRows == 10

\* `not request.form.get(k)` for a text field
FieldMissing(form, k, empty) == k \notin form.has \/ form[k] = empty

\* pd.read_excel(sheet_name='JSON', header=None, skiprows=1, usecols=[1, 2, 3])
ReadExcel(book) ==
    [i \in 1..(Len(book.rows) - 1) |->
        <<book.rows[i + 1][2], book.rows[i + 1][3], book.rows[i + 1][4]>>]

\* df.columns = [...]; Description stripped text, Value and Version coerced
CleanConvert(raw) ==
    [i \in 1..Len(raw) |->
        [idx |-> i,
         Description |-> [nan |-> FALSE, s |-> Strip(AsTypeStr(raw[i][1]))],
         Value |-> ToNumeric(raw[i][2]),
         Version |-> ToNumeric(raw[i][3])]]

IsNA(x) == x.nan

\* df.dropna(subset=['Description', 'Value', 'Version'])
DropNA(df) ==
    SelectSeq(df, LAMBDA r : ~IsNA(r.Description) /\ ~IsNA(r.Value) /\ ~IsNA(r.Version))

\* df['Shelter'] = shelter; df['DateOfRpt'] = dt.date()
AddShelterDate(df, shelter, day) ==
    [i \in 1..Len(df) |->
        [idx |-> df[i].idx, Description |-> df[i].Description.s, Value |-> df[i].Value.n,
         Version |-> df[i].Version.n, Shelter |-> shelter, DateOfRpt |-> day]]

\* df.head(10).to_dict(orient='records'): the index is not part of a record
ToDictRecords(df) ==
    [i \in 1..Len(df) |->
        [Description |-> df[i].Description, Value |-> df[i].Value,
         Version |-> df[i].Version, Shelter |-> df[i].Shelter,
         DateOfRpt |-> df[i].DateOfRpt]]

Answer(resp, dropped) == [resp |-> resp, df |-> <<>>, dropped |-> dropped]

\* upload_file up to the call of insert_data_into_sql: a response when the handler
\* has answered, else the frame and the dropped count it goes on with
UploadPrepare(form) ==
    IF "excelFile" \notin form.has
    THEN Answer(ErrorResponse(400, "No file uploaded"), 0)
    ELSE IF FieldMissing(form, "shelter", <<>>) \/ FieldMissing(form, "dateOfRpt", "")
    THEN Answer(ErrorResponse(400, "Shelter and Date of Report are required"), 0)
    ELSE IF "JSON" \notin form.excelFile.sheets
    THEN Answer(ErrorResponse(500, "Processing failed"), 0)
    ELSE
      LET raw == ReadExcel(form.excelFile)
          clean == CleanConvert(raw)
          kept == DropNA(clean)
          dropped_rows == Len(clean) - Len(kept)
          dt == ToDatetime(form.dateOfRpt)
      IN  IF raw = <<>>
          THEN Answer(ErrorResponse(400, "No data found in Excel sheet"), 0)
          ELSE IF kept = <<>>
          THEN Answer(ErrorResponse(400, "All rows are invalid or missing required data"),
                      dropped_rows)
          ELSE IF ~dt.ok
          THEN Answer(ErrorResponse(400, "Invalid date format for dateOfRpt"), dropped_rows)
          ELSE [resp |-> NoResponse,
                df |-> AddShelterDate(kept, form.shelter, DateOf(dt)),
                dropped |-> dropped_rows]

upload_file(w) ==
    /\ CanAccept(w)
    /\ HandlerFor("/api/upload-excel") = "upload_file"
    /\ \E form \in UploadForms :
          LET p == UploadPrepare(form)
              r == [Accepted("upload", form) EXCEPT !.df = p.df, !.dropped = p.dropped]
          IN  th' = [th EXCEPT ![w] =
                        IF p.resp.status # 0 THEN Finished(r, p.resp)
                        ELSE [r EXCEPT !.pc = "ins_connect"]]
    /\ nreq' = nreq + 1
    /\ UNCHANGED <<loadVars, envVars, tables, openConns>>

\* ------------------------------------------------------------------ the store
TableNames == {"HISup", "HisupFinal"}

\* a connection opened with autocommit=True
autocommitOn == TRUE

\* pyodbc.connect(conn_str, autocommit=False)
autocommit == FALSE

\* pyodbc.connect(...) returned a connection to request r
OpenConnection(conns, r) == [conns EXCEPT ![r] = @ + 1]

\* the rows a table holds once a statement has inserted rows: at once under
\* autocommit, otherwise only when the transaction commits
AfterStatement(rows, inserted) == IF autocommit THEN rows \o inserted ELSE rows
PendingAfterStatement(inserted) == IF autocommit THEN <<>> ELSE inserted

\* conn.close(): the connection is released; work it did not commit is rolled back
CloseConnection(conns, r) == [conns EXCEPT ![r] = @ - 1]

\* ------------------------------------------------------------------ insert_data_into_sql
\* df[['Description', 'Value', 'Version', 'Shelter', 'DateOfRpt']].values.tolist()
ValuesList(df) ==
    [i \in 1..Len(df) |->
        <<df[i].Description, df[i].Value, df[i].Version, df[i].Shelter, df[i].DateOfRpt>>]

\* INSERT INTO t (Description, Value, Version, Shelter, DateOfRpt) VALUES (?, ?, ?, ?, ?)
\* req records the request that wrote the row; no code reads it
InsertRow(params, req) ==
    [Description |-> params[1], Value |-> params[2], Version |-> params[3],
     Shelter |-> params[4], DateOfRpt |-> StoredDate(params[5], 0), req |-> req]

\* what a DB-API cursor may report as rowcount after executemany of n statements:
\* None, -1 (not known), 1 (the last statement), or n
RowCounts(n) ==
    {[none |-> TRUE, n |-> 0]} \cup {[none |-> FALSE, n |-> c] : c \in {-1, 1, n}}

\* inserted = cursor.rowcount if cursor.rowcount is not None else len(data)
InsertedCount(rowcount, data) == IF ~rowcount.none THEN rowcount.n ELSE Len(data)

InsConnect(w) ==
    /\ th[w].pc = "ins_connect"
    /\ \/ /\ th' = [th EXCEPT ![w].conn = TRUE, ![w].pc = "ins_cursor"]
          /\ openConns' = OpenConnection(openConns, th[w].req)
       \/ /\ th' = [th EXCEPT ![w].exc = "connect", ![w].pc = "ins_finally"]
          /\ UNCHANGED openConns
    /\ UNCHANGED <<loadVars, envVars, tables, nreq>>

InsCursor(w) ==
    /\ th[w].pc = "ins_cursor"
    /\ \/ th' = [th EXCEPT ![w].cursor = TRUE, ![w].pc = "ins_execute"]
       \/ th' = [th EXCEPT ![w].exc = "cursor", ![w].pc = "ins_finally"]
    /\ UNCHANGED <<loadVars, envVars, tables, openConns, nreq>>

\* cursor.executemany(insert_sql, data): all the rows, or an error after some of them
InsExecuteMany(w) ==
    /\ th[w].pc = "ins_execute"
    /\ LET data == ValuesList(th[w].df)
           rows == MapSeq(data, LAMBDA p : InsertRow(p, th[w].req))
       IN  \/ /\ th' = [th EXCEPT ![w].pending = PendingAfterStatement(rows),
                                  ![w].pc = "ins_commit"]
              /\ tables' = [tables EXCEPT ![UPLOAD_TABLE] = AfterStatement(@, rows)]
           \/ \E k \in 0..(Len(rows) - 1) :
              /\ th' = [th EXCEPT ![w].pending = PendingAfterStatement(SubSeq(rows, 1, k)),
                                  ![w].exc = "executemany", ![w].pc = "ins_finally"]
              /\ tables' = [tables EXCEPT ![UPLOAD_TABLE] =
                                AfterStatement(@, SubSeq(rows, 1, k))]
    /\ UNCHANGED <<loadVars, envVars, openConns, nreq>>

\* conn.commit(), then the return value is computed from cursor.rowcount
InsCommit(w) ==
    /\ th[w].pc = "ins_commit"
    /\ \/ \E rc \in RowCounts(Len(th[w].df)) :
              /\ tables' = [tables EXCEPT ![UPLOAD_TABLE] = @ \o th[w].pending]
              /\ th' = [th EXCEPT ![w].pending = <<>>,
                                  ![w].inserted = InsertedCount(rc, ValuesList(th[w].df)),
                                  ![w].pc = "ins_finally"]
       \/ /\ th' = [th EXCEPT ![w].exc = "commit", ![w].pc = "ins_finally"]
          /\ UNCHANGED tables
    /\ UNCHANGED <<loadVars, envVars, openConns, nreq>>

\* the response of upload_file once insert_data_into_sql has returned or raised
UploadResponse(r) ==
    IF r.exc # None THEN ErrorResponse(500, "Processing failed")
    ELSE OkResponse([inserted |-> r.inserted,
                     skipped_rows |-> r.dropped,
                     preview |-> ToDictRecords(HeadRows(r.df, PreviewRows))])

\* insert_data_into_sql without its finally block: the cursor and the connection
\* are closed only when the insert returned
InsCloseOnReturn(w) ==
    /\ th[w].pc = "ins_finally"
    /\ openConns' = IF th[w].conn /\ th[w].exc = None
                    THEN CloseConnection(openConns, th[w].req)
                    ELSE openConns
    /\ th' = [th EXCEPT ![w] =
                Finished([th[w] EXCEPT !.cursor = FALSE, !.conn = FALSE, !.pending = <<>>],
                         UploadResponse(th[w]))]
    /\ UNCHANGED <<loadVars, envVars, tables, nreq>>

\* finally: cursor.close(), conn.close(); then upload_file builds its response
InsFinally(w) ==
    /\ th[w].pc = "ins_finally"
    /\ openConns' = IF th[w].conn THEN CloseConnection(openConns, th[w].req)
                    ELSE openConns
    /\ th' = [th EXCEPT ![w] =
                Finished([th[w] EXCEPT !.cursor = FALSE, !.conn = FALSE, !.pending = <<>>],
                         UploadResponse(th[w]))]
    /\ UNCHANGED <<loadVars, envVars, tables, nreq>>

\* ------------------------------------------------------------------ download inputs
\* the dict download_data reads its filters from (the JSON body, or the form as
\* to_dict(flat=False) gives it: lists in both cases); has: the keys it carries
ShelterLists == {
    <<>>,
    <<Txt1("N")>>,
    <<Txt3(" ", "N", " ")>>,
    <<Txt1(" ")>>,
    <<Txt1("S"), Txt1("N")>>,
    <<Txt1(" "), Txt1("N")>> }

DateLists == {
    <<>>,
    <<"2025-01-10">>,
    <<"2025-01-10 13:00">>,
    <<"bad">>,
    <<"2025-01-11", "2025-01-10">> }

AllKeys == {"shelters", "dates"}

DownloadBodies ==
    [has : {AllKeys}, shelters : ShelterLists, dates : DateLists]
    \cup [has : {AllKeys \ {k} : k \in AllKeys},
          shelters : {<<Txt1("N")>>}, dates : {<<"2025-01-10">>}]

\* ------------------------------------------------------------------ download_data
\* data.get(k) or []
GetOrEmpty(data, k) == IF k \in data.has THEN data[k] ELSE <<>>

\* the check written with `and`: only a request missing both filters is refused
FiltersMissingBoth(shelters, dates) == shelters = <<>> /\ dates = <<>>

\* if not shelters or not dates
FiltersMissing(shelters, dates) == shelters = <<>> \/ dates = <<>>

\* [str(s).strip() for s in shelters if str(s).strip()]
NormalizeShelters(shelters) ==
    SelectSeq(MapSeq(shelters, Strip), LAMBDA s : s # <<>>)

\* ','.join('?' for _ in xs): one placeholder for each element
Placeholders(xs) == [i \in 1..Len(xs) |-> "?"]

\* download_data up to get_db_connection: a response when the handler has
\* answered, else the query and its parameters
DownloadPrepare(data) ==
    LET shelters == GetOrEmpty(data, "shelters")
        dates == GetOrEmpty(data, "dates")
        timestamps == MapSeq(dates, ToDatetime)
        normalized == NormalizeShelters(shelters)
        date_objects == MapSeq(timestamps, DateOf)
    IN  IF FiltersMissing(shelters, dates)
        THEN [resp |-> ErrorResponse(400, "Shelters and dates are required"),
              query |-> NoQuery, params |-> <<>>]
        ELSE IF \E i \in 1..Len(timestamps) : ~timestamps[i].ok
        THEN [resp |-> ErrorResponse(400, "Invalid date(s) provided"),
              query |-> NoQuery, params |-> <<>>]
        ELSE [resp |-> NoResponse,
              query |-> [table |-> DOWNLOAD_TABLE,
                         shelterPlaceholders |-> Placeholders(normalized),
                         datePlaceholders |-> Placeholders(date_objects)],
              params |-> normalized \o MapSeq(date_objects, IsoFormat)]

download_data(w) ==
    /\ CanAccept(w)
    /\ HandlerFor("/download") = "download_data"
    /\ \E data \in DownloadBodies :
          LET p == DownloadPrepare(data)
              r == [Accepted("download", data) EXCEPT !.query = p.query, !.params = p.params]
          IN  th' = [th EXCEPT ![w] =
                        IF p.resp.status # 0 THEN Finished(r, p.resp)
                        ELSE [r EXCEPT !.pc = "dl_connect"]]
    /\ nreq' = nreq + 1
    /\ UNCHANGED <<loadVars, envVars, tables, openConns>>

\* the store accepts the statement: neither IN-list is empty and every
\* placeholder has its parameter
StatementValid(query, params) ==
    /\ query.shelterPlaceholders # <<>>
    /\ query.datePlaceholders # <<>>
    /\ Len(params) = Len(query.shelterPlaceholders) + Len(query.datePlaceholders)

\* ORDER BY Shelter, DateOfRpt
RowBefore(a, b) ==
    \/ TextLess(a.Shelter, b.Shelter)
    \/ /\ a.Shelter = b.Shelter
       /\ \/ a.DateOfRpt.day < b.DateOfRpt.day
          \/ a.DateOfRpt.day = b.DateOfRpt.day /\ a.DateOfRpt.minutes < b.DateOfRpt.minutes

RECURSIVE InsertSorted(_, _)
InsertSorted(sorted, r) ==
    IF sorted = <<>> THEN <<r>>
    ELSE IF RowBefore(r, Head(sorted)) THEN <<r>> \o sorted
    ELSE <<Head(sorted)>> \o InsertSorted(Tail(sorted), r)

RECURSIVE OrderBy(_)
OrderBy(rows) ==
    IF rows = <<>> THEN <<>>
    ELSE InsertSorted(OrderBy(SubSeq(rows, 1, Len(rows) - 1)), rows[Len(rows)])

\* SELECT Description, Value, Shelter, DateOfRpt FROM t
\* WHERE Shelter IN (?...) AND CAST(DateOfRpt AS DATE) IN (?...) ORDER BY Shelter, DateOfRpt
\* with the parameters bound to the placeholders in order
RunSelect(rows, query, params) ==
    LET nS == Len(query.shelterPlaceholders)
        nD == Len(query.datePlaceholders)
        shelterArgs == SubSeq(params, 1, nS)
        dateArgs == SubSeq(params, nS + 1, nS + nD)
        Matches(r) ==
            /\ \E i \in 1..nS : r.Shelter = shelterArgs[i]
            /\ \E j \in 1..nD : CastAsDate(r.DateOfRpt) = SqlDateParam(dateArgs[j])
        Project(r) == [Description |-> r.Description, Value |-> r.Value,
                       Shelter |-> r.Shelter, DateOfRpt |-> r.DateOfRpt]
    IN  OrderBy(MapSeq(SelectSeq(rows, Matches), Project))

DlConnect(w) ==
    /\ th[w].pc = "dl_connect"
    /\ \/ /\ th' = [th EXCEPT ![w].conn = TRUE, ![w].pc = "dl_query"]
          /\ openConns' = OpenConnection(openConns, th[w].req)
       \/ /\ th' = [th EXCEPT ![w].exc = "connect", ![w].pc = "dl_finally"]
          /\ UNCHANGED openConns
    /\ UNCHANGED <<loadVars, envVars, tables, nreq>>

\* pd.read_sql_query(query, conn, params=params)
DlQuery(w) ==
    /\ th[w].pc = "dl_query"
    /\ IF ~StatementValid(th[w].query, th[w].params)
       THEN th' = [th EXCEPT ![w].exc = "syntax", ![w].pc = "dl_finally"]
       ELSE \/ th' = [th EXCEPT ![w].result =
                          RunSelect(tables[th[w].query.table], th[w].query, th[w].params),
                                ![w].pc = "dl_finally"]
            \/ th' = [th EXCEPT ![w].exc = "select", ![w].pc = "dl_finally"]
    /\ UNCHANGED <<loadVars, envVars, tables, openConns, nreq>>

\* the response of download_data once the inner try block is left
DownloadResponse(r) ==
    IF r.exc # None THEN ErrorResponse(500, "Failed to generate download")
    ELSE IF r.result = <<>>
    THEN ErrorResponse(404, "No data found for the selected filters")
    ELSE OkResponse([sheet_name |-> "HISup", rows |-> r.result])

\* finally: if conn: conn.close(); then the response is built
DlFinally(w) ==
    /\ th[w].pc = "dl_finally"
    /\ openConns' = IF th[w].conn THEN CloseConnection(openConns, th[w].req)
                    ELSE openConns
    /\ th' = [th EXCEPT ![w] =
                Finished([th[w] EXCEPT !.conn = FALSE], DownloadResponse(th[w]))]
    /\ UNCHANGED <<loadVars, envVars, tables, nreq>>

\* ------------------------------------------------------------------ specification
\* rows the store holds before the server starts (req 0: written by no request)
StoredRow(d, v, ver, s, day, minutes) ==
    [Description |-> d, Value |-> v, Version |-> ver, Shelter |-> s,
     DateOfRpt |-> StoredDate(day, minutes), req |-> 0]

InitialTables ==
    [t \in TableNames |->
        IF t = "HisupFinal"
        THEN << StoredRow(Txt1("B"), 5, 1, Txt1("S"), 11, 0),
                StoredRow(Txt1("B"), 4, 1, Txt1("N"), 10, 780) >>
        ELSE << StoredRow(Txt1("A"), 9, 1, Txt1("S"), 11, 0) >>]

Init ==
    /\ loadPc = 1
    /\ appName = 0
    /\ routes = [o \in FlaskObjects |-> {}]
    /\ serving = 0
    /\ runMode \in {"main", "import"}
    /\ UPLOAD_TABLE = "HISup"
    /\ DOWNLOAD_TABLE \in TableNames
    /\ tables = InitialTables
    /\ openConns = [r \in 1..MaxRequests |-> 0]
    /\ nreq = 0
    /\ th = [w \in Workers |-> Idle]

Next ==
    \/ LoadNewApp
    \/ LoadRoute
    \/ LoadMainGuard
    \/ WsgiServe
    \/ \E w \in Workers :
        \/ NotFound(w)
        \/ ping(w)
        \/ healthz(w)
        \/ upload_file(w)
        \/ InsConnect(w)
        \/ InsCursor(w)
        \/ InsExecuteMany(w)
        \/ InsCommit(w)
        \/ InsFinally(w)
        \/ download_data(w)
        \/ DlConnect(w)
        \/ DlQuery(w)
        \/ DlFinally(w)
        \/ Return(w)

Spec == Init /\ [][Next]_vars

\* ------------------------------------------------------------------ properties
Handling(w, kind) == th[w].pc # "idle" /\ th[w].kind = kind
Answered(w, kind) == th[w].pc = "done" /\ th[w].kind = kind

\* the rows of a table that request r wrote
WrittenBy(t, r) == SelectSeq(tables[t], LAMBDA x : x.req = r)

\* the rows insert_data_into_sql was given, as rows of the upload table
Batch(w) == MapSeq(ValuesList(th[w].df), LAMBDA p : InsertRow(p, th[w].req))

\* the parsed rows of an upload whose description, value or version is missing:
\* a blank cell, or a value or version that is not a number
MissingRows(w) ==
    LET raw == ReadExcel(th[w].input.excelFile)
    IN  {i \in 1..Len(raw) :
            \/ raw[i][1].kind = "blank"
            \/ ToNumeric(raw[i][2]).nan
            \/ ToNumeric(raw[i][3]).nan}

\* C1: in an upload that goes on to insert, no row missing its description, value
\* or version is in the batch or in the preview, and skipped_rows is the number
\* of such rows.
C1_MissingRowsSkipped ==
    \A w \in Workers :
        (Handling(w, "upload") /\ th[w].df # <<>>) =>
            /\ \A j \in 1..Len(th[w].df) : th[w].df[j].idx \notin MissingRows(w)
            /\ th[w].dropped = Cardinality(MissingRows(w))
            /\ (th[w].resp.status = 200 =>
                   /\ th[w].resp.body.skipped_rows = Cardinality(MissingRows(w))
                   /\ Len(th[w].resp.body.preview) <= Len(th[w].df)
                   /\ \A j \in 1..Len(th[w].resp.body.preview) :
                         th[w].df[j].idx \notin MissingRows(w))

\* C2: the batch insert is all-or-nothing. Until insert_data_into_sql has
\* committed, and for good when it fails, no table holds a row of the request;
\* once it has committed the upload table ends with exactly the batch; the rows
\* the store held before are never disturbed; the response is a success exactly
\* when the batch is in the table, and an error response carries an error.
C2_BatchAllOrNothing ==
    /\ \A t \in TableNames :
          SubSeq(tables[t], 1, Len(InitialTables[t])) = InitialTables[t]
    /\ \A w \in Workers :
          Handling(w, "upload") =>
            LET committed == th[w].pc \in {"ins_finally", "done"}
                                /\ th[w].exc = None /\ th[w].df # <<>>
                mine == WrittenBy(UPLOAD_TABLE, th[w].req)
                n == Len(tables[UPLOAD_TABLE])
            IN  /\ \A t \in TableNames \ {UPLOAD_TABLE} : WrittenBy(t, th[w].req) = <<>>
                /\ IF committed
                   THEN /\ mine = Batch(w)
                        /\ SubSeq(tables[UPLOAD_TABLE], n - Len(mine) + 1, n) = mine
                   ELSE mine = <<>>
                /\ (th[w].pc = "done" =>
                      /\ (th[w].resp.status = 200) = (mine # <<>>)
                      /\ (th[w].resp.status # 200 => th[w].resp.error # None))

\* an upload of two rows whose commit failed has been answered
C2_Witness ==
    \E w \in Workers :
        /\ Answered(w, "upload")
        /\ Len(th[w].df) = 2
        /\ th[w].exc = "commit"
        /\ th[w].resp.status = 500

\* C3: a request holds at most one open connection, only while its handler is
\* between get_db_connection and the end of its finally block; a request that
\* has been answered, on any path, holds none.
C3_ConnectionsScoped ==
    \A r \in 1..MaxRequests :
        /\ openConns[r] <= 1
        /\ openConns[r] > 0 =>
              \E w \in Workers :
                  /\ th[w].req = r
                  /\ th[w].conn
                  /\ th[w].pc \in {"ins_cursor", "ins_execute", "ins_commit", "ins_finally",
                                   "dl_query", "dl_finally"}

\* an upload whose cursor creation failed after the connection was opened has
\* been answered and holds no connection
C3_Witness ==
    \E w \in Workers :
        /\ Answered(w, "upload")
        /\ th[w].exc = "cursor"
        /\ th[w].resp.status = 500
        /\ openConns[th[w].req] = 0

\* the shelters or dates list of a download request is empty or absent
EmptyFilter(data) ==
    \/ "shelters" \notin data.has \/ data.shelters = <<>>
    \/ "dates" \notin data.has \/ data.dates = <<>>

\* C4: a download request whose shelters or dates list is empty or absent is
\* answered 400 with an error, without a connection and without a query.
C4_EmptyFilterRejected ==
    \A w \in Workers :
        (Handling(w, "download") /\ EmptyFilter(th[w].input)) =>
            /\ th[w].pc = "done"
            /\ th[w].resp.status = 400
            /\ th[w].resp.error # None
            /\ th[w].query = NoQuery
            /\ ~th[w].conn /\ openConns[th[w].req] = 0
            /\ th[w].exc = None

\* a download request without a shelters key has been answered
C4_Witness ==
    \E w \in Workers :
        /\ Answered(w, "download")
        /\ "shelters" \notin th[w].input.has
        /\ th[w].input.dates # <<>>
        /\ th[w].resp.status = 400

SeqToSet(s) == {s[i] : i \in 1..Len(s)}

\* C5: a download with non-empty shelters S and parseable dates D against a
\* reachable store returns exactly the rows of the download table whose shelter
\* is in S (names compared trimmed) and whose date is in D: 404 with an error
\* when there are none, else 200 with those rows.
C5_DownloadReturnsMatches ==
    \A w \in Workers :
        ( /\ Answered(w, "download")
          /\ ~EmptyFilter(th[w].input)
          /\ \A d \in SeqToSet(th[w].input.dates) : ToDatetime(d).ok
          /\ th[w].exc \notin {"connect", "select"} ) =>
            LET S == {Strip(x) : x \in SeqToSet(th[w].input.shelters)}
                D == {DateOf(ToDatetime(d)) : d \in SeqToSet(th[w].input.dates)}
                expected == {x \in SeqToSet(tables[DOWNLOAD_TABLE]) :
                                x.Shelter \in S /\ CastAsDate(x.DateOfRpt) \in D}
                Cols(x) == <<x.Description, x.Value, x.Shelter, x.DateOfRpt>>
            IN  IF expected = {}
                THEN th[w].resp.status = 404 /\ th[w].resp.error # None
                ELSE /\ th[w].resp.status = 200
                     /\ {Cols(x) : x \in SeqToSet(th[w].resp.body.rows)}
                            = {Cols(x) : x \in expected}
                     /\ Len(th[w].resp.body.rows) = Cardinality(expected)

\* C6: once an upload for shelter s and date d has been committed, a download
\* with shelters=[s] and dates=[d] is answered with rows carrying the
\* description, value and version of every row that upload inserted.
C6_RoundTrip ==
    \A w \in Workers :
        ( /\ Answered(w, "download")
          /\ th[w].exc = None
          /\ Len(th[w].input.shelters) = 1 /\ Len(th[w].input.dates) = 1
          /\ ToDatetime(th[w].input.dates[1]).ok ) =>
            LET s == th[w].input.shelters[1]
                d == DateOf(ToDatetime(th[w].input.dates[1]))
                uploaded == {x \in SeqToSet(tables[UPLOAD_TABLE]) :
                                /\ x.req # 0 /\ x.req < th[w].req
                                /\ x.Shelter = s /\ CastAsDate(x.DateOfRpt) = d}
            IN  uploaded # {} =>
                  /\ th[w].resp.status = 200
                  /\ \A x \in uploaded :
                        \E y \in SeqToSet(th[w].resp.body.rows) :
                            /\ {"Description", "Value", "Version"} \subseteq DOMAIN y
                            /\ y.Description = x.Description
                            /\ y.Value = x.Value
                            /\ y.Version = x.Version

\* C7: a valid download that cannot connect to the store is answered 404 with
\* an error, not 500.
C7_NoStoreAnswers404 ==
    \A w \in Workers :
        (Answered(w, "download") /\ th[w].exc = "connect") =>
            th[w].resp.status = 404 /\ th[w].resp.error # None

\* C8: after a committed insert of n rows insert_data_into_sql returns n and
\* the upload response reports n.
C8_InsertedIsBatchSize ==
    \A w \in Workers :
        ( /\ Handling(w, "upload")
          /\ th[w].pc \in {"ins_finally", "done"}
          /\ th[w].exc = None /\ th[w].df # <<>> ) =>
            /\ th[w].inserted = Len(th[w].df)
            /\ (th[w].pc = "done" => th[w].resp.body.inserted = Len(th[w].df))

\* C9: a query download_data has a connection for has a placeholder in each
\* IN-list and one parameter for each placeholder, shelters first, then dates.
C9_QueryHasPlaceholders ==
    \A w \in Workers :
        (Handling(w, "download") /\ th[w].conn) =>
            LET nS == Len(th[w].query.shelterPlaceholders)
                nD == Len(th[w].query.datePlaceholders)
            IN  /\ nS >= 1
                /\ nD >= 1
                /\ Len(th[w].params) = nS + nD
                /\ SubSeq(th[w].params, 1, nS) = NormalizeShelters(th[w].input.shelters)
                /\ \A j \in 1..nD :
                      th[w].params[nS + j] =
                          IsoFormat(DateOf(ToDatetime(th[w].input.dates[j])))

\* C10: once the module has been imported, the object `app` names has handlers
\* for /ping, /healthz, /api/upload-excel, /download and /download-template.
C10_ImportedAppHasRoutes ==
    (Loaded /\ runMode = "import") =>
        \A p \in {"/ping", "/healthz", "/api/upload-excel", "/download",
                  "/download-template"} :
            \E r \in routes[appName] : r.path = p

====
